---- MODULE Spec2Model ----
(***************************************************************************)
(* A model of the Falcon block of petals (src/petals/models/falcon/block.py)*)
(* and of the speculative generation loop of                               *)
(* tests/test_speculative_generation.py.                                   *)
(*                                                                         *)
(* Tensors are modelled by their shapes and, where a claim is about their   *)
(* contents, by nested sequences: a cache state [n, seq_len, head_dim] is a *)
(* sequence of n entries, each a sequence of seq_len cells (one cell stands *)
(* for the head_dim vector of one position). The block and the session are *)
(* followed at two depths: SpecBlock and SpecSession by the shapes and      *)
(* lengths, SpecCache and SpecReplay down to the contents of the rotary     *)
(* tables, the static outputs and the caches.                              *)
(***************************************************************************)
EXTENDS Integers, Sequences, FiniteSets, TLC

\* ------------------------------------------------------------------ bounds
MaxKVHeads == 2
MaxGroups == 2
NumLayers == 2
\* the longest cache a direct caller grows before it stops feeding it back
MaxHeldLen == 5
\* the most tokens one call brings
MaxTokens == 2
\* the maximum lengths a session is opened with
MaxLengths == {3, 4}
\* the speculative loop: lookahead per round, tokens to generate, token ids, prompts
BatchSize == 3
MaxNewTokens == 4
Vocab == {0, 1}
Prompts == {<<0>>, <<1>>, <<0, 1>>}
\* batch sizes, sequence lengths and cell contents the inputs are drawn from
BatchSizes == {1, 2}
SeqLens == {0, 1, 2}
CellValues == {0, 1}

VARIABLES
    \* head-layout converter (WrappedFalconBlock._expand_states / _collapse_states)
    config,      \* [num_kv_heads, num_key_value_groups, num_attention_heads]
    convInput,   \* the collapsed state the round trip started from
    convState,   \* the tensor the converter currently holds
    convPhase,   \* "collapsed" | "expanded" | "roundtrip"
    \* blocks: block 0 is a block called directly (ref_block of the tests),
    \* blocks 1..NumLayers are the layer stack a session steps through
    blocks,      \* per block, the capture state of its three accelerated sites
    rope,        \* per block, the cos/sin tables of its rotary embedding
    held,        \* the cache the direct caller holds and feeds back as layer_past
    lastCall,    \* what the last direct forward call was given and what it did
    statics,     \* block 0: the contents of the static outputs a present is made of
    heldKV,      \* the contents of held, and whether its tensors view the static outputs
    lastKV,      \* the contents of layer_past and present of the last direct call
    \* inference session
    sessState,   \* "None" | "Open" | "Closed"
    max_length,  \* the session's declared maximum length
    sessBatch,   \* the session's batch size
    position,    \* the session's current length
    cacheLen,    \* per layer, the length of its key/value cache
    lastStep,    \* what the last step call was given and what it did
    sessTokens,  \* the token sequence the session's caches stand for
    cacheKeys,   \* per layer, the contents of its key cache, position by position
    rejected,    \* some step of the session was rejected for its length
    \* speculative generation loop (test_speculative_greedy_generation)
    authTable,     \* the authoritative model: its arg-max token after a prefix
    inputs,        \* the prompt's token ids
    generated_ids, \* the running sequence
    lastRound,     \* the proposal, the predictions and match_length of the last round
    pc,            \* "loop" | "done"
    \* two callers of one accelerated site (_optimized_apply_qkv of block 0)
    staticIn,    \* the contents of the site's static_input
    staticOut,   \* the contents of the site's static_outputs
    callPc,      \* per caller: "idle" | "copied" | "replayed" | "returned"
    callIn,      \* per caller, the hidden_states of its invocation
    callOut,     \* per caller, what the returned tensors held when it returned
    overlapped,  \* per caller, its invocation overlapped one of the other caller
    event        \* the operation that produced the current state

convVars == <<convInput, convState, convPhase>>
kvVars == <<statics, heldKV, lastKV>>
blockVars == <<blocks, rope, held, lastCall, kvVars>>
sessVars ==
    <<sessState, max_length, sessBatch, position, cacheLen, lastStep, sessTokens, cacheKeys,
      rejected>>
loopVars == <<authTable, inputs, generated_ids, lastRound, pc>>
raceVars == <<staticIn, staticOut, callPc, callIn, callOut, overlapped>>
vars == <<config, convVars, blockVars, sessVars, loopVars, raceVars, event>>

\* ------------------------------------------------- head-layout converter
\* All tensors [n, seq_len] over CellValues.
Tensors(n, seq_len) == [1..n -> [1..seq_len -> CellValues]]

\* FalconConfig of the new decoder architecture: num_attention_heads query
\* heads share num_kv_heads key/value heads, num_key_value_groups to each.
Configs ==
    { [num_kv_heads |-> kv, num_key_value_groups |-> g, num_attention_heads |-> kv * g] :
        kv \in 1..MaxKVHeads, g \in 1..MaxGroups }

\* state.expand(...) as torch.repeat would do it (tiling the kv heads instead
\* of repeating each one num_key_value_groups times).
ExpandStatesTiled(state) ==
    LET kv == config.num_kv_heads
        H == config.num_attention_heads
        batch_size == Len(state) \div kv
    IN  [i \in 1..(batch_size * H) |->
            LET b == (i - 1) \div H
                r == (i - 1) % H
            IN  state[b * kv + (r % kv) + 1]]

\* _expand_states: view(batch, kv, 1, seq, dim), expand the third axis to
\* num_key_value_groups, reshape(batch * num_attention_heads, seq, dim).
ExpandStates(state) ==
    LET kv == config.num_kv_heads
        g == config.num_key_value_groups
        H == config.num_attention_heads
        batch_size == Len(state) \div kv
    IN  [i \in 1..(batch_size * H) |->
            LET b == (i - 1) \div H
                r == (i - 1) % H
                k == r \div g
            IN  state[b * kv + k + 1]]

\* _collapse_states: view(batch, kv, groups, seq, dim)[:, :, 0],
\* view(batch * kv, seq, dim).
CollapseStates(state) ==
    LET kv == config.num_kv_heads
        g == config.num_key_value_groups
        H == config.num_attention_heads
        batch_size == Len(state) \div H
    IN  [i \in 1..(batch_size * kv) |->
            LET b == (i - 1) \div kv
                k == (i - 1) % kv
            IN  state[b * H + k * g + 0 + 1]]

\* ------------------------------------------- fixed-shape graph accelerator
\* torch modes a call runs under; torch.is_inference_mode_enabled() holds
\* under "inference" only.
Modes == {"grad", "no_grad", "inference"}

\* The capture state of one accelerated site: graph (the CUDA graph exists),
\* surface (first dimensions of the bound input tensors), outputs (first
\* dimension of static_outputs), and how often the site bound its surface,
\* warmed up and captured.
NoSite(none) ==
    [graph |-> FALSE, surface |-> none, outputs |-> 0,
     binds |-> 0, warmups |-> 0, captures |-> 0]

NewBlock == [ln |-> NoSite(0), qkv |-> NoSite(0), rotary |-> NoSite(<<>>)]

\* static_input.copy_(data): data must broadcast to the bound tensor's shape,
\* else torch raises RuntimeError.
CopyFits(data, static_input) == data = static_input \/ data = 1

\* Direct execution of a site's operation: the site is not touched.
Direct(site, shape) ==
    [site |-> site, path |-> "direct", ins |-> shape, out |-> shape, err |-> FALSE]

\* Capture without the "is None" guard: every call binds and captures anew.
CaptureAlways(site, surface, out) ==
    [graph |-> TRUE, surface |-> surface, outputs |-> out,
     binds |-> site.binds + 1, warmups |-> site.warmups + 3,
     captures |-> site.captures + 1]

\* if self.<graph> is None: bind, warm up three times, capture.
CaptureOnce(site, surface, out) ==
    IF site.graph
    THEN site
    ELSE [graph |-> TRUE, surface |-> surface, outputs |-> out,
          binds |-> site.binds + 1, warmups |-> site.warmups + 3,
          captures |-> site.captures + 1]

\* static_input.copy_(...) into the bound surface, graph.replay(), and the
\* detached static_outputs; first tells whether this call captured.
CopyAndReplay(s, first, data, fits) ==
    IF fits
    THEN [site |-> s, path |-> IF first THEN "capture" ELSE "replay",
          ins |-> data, out |-> s.outputs, err |-> FALSE]
    ELSE [site |-> s, path |-> "error", ins |-> data, out |-> 0, err |-> TRUE]

\* for static_input, data in zip(self.input_surface, inputs): static_input.copy_(data)
RotaryCopyFits(s, tensors) == \A i \in 1..4 : CopyFits(tensors[i], s.surface[i])

LnCopyFits(s, batch) == CopyFits(batch, s.surface)

\* _optimized_apply_ln(hidden_states), hidden_states of shape [batch, 1, hidden]
OptimizedApplyLnOn(s, first, batch) == CopyAndReplay(s, first, batch, LnCopyFits(s, batch))

OptimizedApplyLn(site, batch) ==
    OptimizedApplyLnOn(CaptureOnce(site, batch, batch), ~site.graph, batch)

\* _optimized_apply_qkv(hidden_states), hidden_states of shape [batch, 1, hidden]
OptimizedApplyQkvOn(s, first, batch) == CopyAndReplay(s, first, batch, CopyFits(batch, s.surface))

OptimizedApplyQkv(site, batch) ==
    OptimizedApplyQkvOn(CaptureOnce(site, batch, batch), ~site.graph, batch)

\* _optimized_apply_rotary(query, key, cos, sin): query and key of shape
\* [rows, 1, head_dim], cos and sin of shape [1, 1, head_dim].
OptimizedApplyRotaryOn(s, first, rows) ==
    CopyAndReplay(s, first, rows, RotaryCopyFits(s, <<rows, rows, 1, 1>>))

OptimizedApplyRotary(site, rows) ==
    OptimizedApplyRotaryOn(CaptureOnce(site, <<rows, rows, 1, 1>>, rows), ~site.graph, rows)

\* The gates of the three sites: seq_len == 1 and torch.is_inference_mode_enabled()
LnGateAnyLength(seq_len, mode) == mode = "inference"

LnGate(seq_len, mode) == seq_len = 1 /\ mode = "inference"

QkvGate(seq_len, mode) == seq_len = 1 /\ mode = "inference"

RotaryGate(seq_len, mode) == seq_len = 1 /\ mode = "inference"

\* OptimizedFalconRotaryEmbedding.forward(query, key, past_key_values_length)
RotaryForward(site, rows, seq_len, mode) ==
    IF RotaryGate(seq_len, mode)
    THEN OptimizedApplyRotary(site, rows)
    ELSE Direct(site, rows)

\* ----------------------------------------------------- rotary cos/sin tables
\* The warm-up length of the tables (8192 in the source, scaled to the lengths
\* the model reaches so that a longer request rebuilds the tables).
INFERENCE_MAX_LENGTH == 3

\* emb.cos() for position t; a table row stands for its head_dim vector.
Cos(t) == <<"cos", t>>

\* emb.cos()[None, :, :] over torch.arange(total_length): row r holds position r - 1.
CosTable(total_length) == [r \in 1..total_length |-> Cos(r - 1)]

\* OptimizedFalconRotaryEmbedding.__init__: no tables yet. bound is the row of
\* the current tables that input_surface's cos and sin are views of (0: none).
NewRope == [seq_len_cached |-> -1, cos_cached |-> <<>>, sin_cached |-> <<>>, bound |-> 0]

\* total_length of cos_sin: the first call warms up to INFERENCE_MAX_LENGTH.
TotalLength(r, seq_len, past_key_values_length) ==
    IF r.seq_len_cached = -1 /\ INFERENCE_MAX_LENGTH > seq_len + past_key_values_length
    THEN INFERENCE_MAX_LENGTH
    ELSE seq_len + past_key_values_length

\* cos_sin: a longer request registers new buffers, both built from emb.cos();
\* a bound surface keeps viewing the buffers it was taken from.
CosSin(r, seq_len, past_key_values_length) ==
    IF TotalLength(r, seq_len, past_key_values_length) > r.seq_len_cached
    THEN [seq_len_cached |-> TotalLength(r, seq_len, past_key_values_length),
          cos_cached |-> CosTable(TotalLength(r, seq_len, past_key_values_length)),
          sin_cached |-> CosTable(TotalLength(r, seq_len, past_key_values_length)),
          bound |-> 0]
    ELSE r

\* static_input.copy_(data) for cos and sin: the bound views are written with
\* the rows cos_sin returned for this call.
CopyIntoBound(t, row) ==
    IF t.bound = 0
    THEN t
    ELSE [t EXCEPT !.cos_cached[t.bound] = t.cos_cached[row],
                   !.sin_cached[t.bound] = t.sin_cached[row]]

\* The tables after OptimizedFalconRotaryEmbedding.forward took the given path:
\* cos_sin runs first; a capture binds the returned views as input_surface; a
\* capture or a replay copies the returned rows into the bound views; a copy_
\* that raises does so on query, before cos and sin.
RotaryTablesOn(t, path, past_key_values_length) ==
    IF path = "capture"
    THEN CopyIntoBound([t EXCEPT !.bound = past_key_values_length + 1],
                       past_key_values_length + 1)
    ELSE IF path = "replay"
         THEN CopyIntoBound(t, past_key_values_length + 1)
         ELSE t

RotaryTables(r, path, seq_len, past_key_values_length) ==
    IF path = "none"
    THEN r
    ELSE RotaryTablesOn(CosSin(r, seq_len, past_key_values_length), path,
                        past_key_values_length)

\* The cos and sin rows apply_rotary multiplies the new positions with.
RotaryApplied(r, seq_len, past_key_values_length) ==
    [i \in 1..seq_len |->
        <<CosSin(r, seq_len, past_key_values_length).cos_cached[past_key_values_length + i],
          CosSin(r, seq_len, past_key_values_length).sin_cached[past_key_values_length + i]>>]

\* ------------------------------------------------------------ falcon block
\* A key/value cache by its shape: rows (first dimension) and len (positions).
\* rows = 0 stands for layer_past = None.
NoPast == [rows |-> 0, len |-> 0]

\* _reorder_cache_from_bloom_to_falcon: rows batch * num_kv_heads become
\* batch * num_attention_heads (_expand_states).
ReorderBloomToFalcon(kv) ==
    [rows |-> (kv.rows \div config.num_kv_heads) * config.num_attention_heads,
     len |-> kv.len]

\* _reorder_cache_from_falcon_to_bloom: rows batch * num_attention_heads become
\* batch * num_kv_heads (_collapse_states).
ReorderFalconToBloom(kv) ==
    [rows |-> (kv.rows \div config.num_attention_heads) * config.num_kv_heads,
     len |-> kv.len]

\* A concatenation that silently truncates at the declared capacity.
PresentLengthCapped(past_kv_length, query_length) ==
    IF past_kv_length + query_length > max_length
    THEN max_length
    ELSE past_kv_length + query_length

\* The length of present: torch.cat((past_key, key_layer), dim=1).
PresentLength(past_kv_length, query_length) == past_kv_length + query_length

\* What a forward call gives back: the sites it left behind, ok or the error
\* raised, the present cache, the batch of the returned hidden states, and
\* per site the path taken and the first dimension of the input it was given.
NoPaths == [ln |-> "none", qkv |-> "none", rotary |-> "none"]
NoIns == [ln |-> 0, qkv |-> 0, rotary |-> 0]

Raised(blk, paths, ins) ==
    [blk |-> blk, res |-> "RuntimeError", present |-> NoPast, out |-> 0,
     paths |-> paths, ins |-> ins]

\* OptimizedFalconAttention.forward after the rotary embedding (rot): the
\* concatenation with layer_past and the present cache.
AttentionConcat(blk, rot, batch_size, seq_len, layer_past, paths, ins) ==
    IF rot.err
       \/ (layer_past.rows # 0
           /\ (layer_past.rows # rot.out
               \/ layer_past.rows # batch_size * config.num_attention_heads))
    THEN \* the copy_ of the rotary site or torch.cat (sizes must match) raised
         Raised([blk EXCEPT !.rotary = rot.site],
                [paths EXCEPT !.rotary = rot.path], [ins EXCEPT !.rotary = rot.ins])
    ELSE [blk |-> [blk EXCEPT !.rotary = rot.site], res |-> "ok",
          present |-> [rows |-> rot.out,
                       len |-> PresentLength(layer_past.len, seq_len)],
          out |-> batch_size,
          paths |-> [paths EXCEPT !.rotary = rot.path],
          ins |-> [ins EXCEPT !.rotary = rot.ins]]

\* OptimizedFalconAttention.forward after the fused projection (qkv): the
\* heads are flattened into the rows and the rotary embedding is applied.
AttentionRotary(blk, qkv, seq_len, mode, layer_past, paths, ins) ==
    IF qkv.err
    THEN Raised([blk EXCEPT !.qkv = qkv.site],
                [paths EXCEPT !.qkv = qkv.path], [ins EXCEPT !.qkv = qkv.ins])
    ELSE AttentionConcat([blk EXCEPT !.qkv = qkv.site],
                         RotaryForward(blk.rotary, qkv.out * config.num_attention_heads,
                                       seq_len, mode),
                         qkv.out, seq_len, layer_past,
                         [paths EXCEPT !.qkv = qkv.path], [ins EXCEPT !.qkv = qkv.ins])

\* OptimizedFalconAttention.forward, from the sites' state and the shapes.
AttentionForward(blk, batch, seq_len, mode, layer_past, paths, ins) ==
    AttentionRotary(blk,
                    IF QkvGate(seq_len, mode)
                    THEN OptimizedApplyQkv(blk.qkv, batch)
                    ELSE Direct(blk.qkv, batch),
                    seq_len, mode, layer_past, paths, ins)

\* OptimizedFalconDecoderLayer.forward after self_attention (att):
\* dropout_add(mlp_output, residual), residual having the call's batch.
DecoderLayerResidual(att, batch) ==
    IF att.res # "ok"
    THEN att
    ELSE IF batch # att.out /\ batch # 1 /\ att.out # 1
         THEN Raised(att.blk, att.paths, att.ins)
         ELSE [att EXCEPT !.out = IF batch > att.out THEN batch ELSE att.out]

\* OptimizedFalconDecoderLayer.forward after the layer norms (ln).
DecoderLayerAttention(blk, ln, batch, seq_len, mode, layer_past) ==
    IF ln.err
    THEN Raised([blk EXCEPT !.ln = ln.site],
                [NoPaths EXCEPT !.ln = ln.path], [NoIns EXCEPT !.ln = ln.ins])
    ELSE DecoderLayerResidual(
            AttentionForward([blk EXCEPT !.ln = ln.site], ln.out, seq_len, mode, layer_past,
                             [NoPaths EXCEPT !.ln = ln.path], [NoIns EXCEPT !.ln = ln.ins]),
            batch)

\* OptimizedFalconDecoderLayer.forward
DecoderLayerForward(blk, batch, seq_len, mode, layer_past) ==
    DecoderLayerAttention(blk,
                          IF LnGate(seq_len, mode)
                          THEN OptimizedApplyLn(blk.ln, batch)
                          ELSE Direct(blk.ln, batch),
                          batch, seq_len, mode, layer_past)

\* if use_cache: present goes back to the Bloom layout.
WrapPresent(r) ==
    IF r.res # "ok" THEN r ELSE [r EXCEPT !.present = ReorderFalconToBloom(r.present)]

\* WrappedFalconBlock.forward with use_cache=True: layer_past and present are
\* in the Bloom (collapsed) layout.
BlockForward(blk, batch, seq_len, mode, layer_past) ==
    WrapPresent(DecoderLayerForward(blk, batch, seq_len, mode,
                                    IF layer_past.rows = 0
                                    THEN NoPast
                                    ELSE ReorderBloomToFalcon(layer_past)))

\* ------------------------------------------------------- cache contents
\* A key/value cache by its contents: key and value are tensors (a sequence of
\* rows, each a sequence of cells, one per position); perm tells that the key's
\* last two axes are permuted, as the Bloom layout has them.
NoKV == [key |-> <<>>, value |-> <<>>, perm |-> FALSE]

NoStatics == [key |-> <<>>, value |-> <<>>]

\* _split_heads and the reshape to [batch * num_heads, query_length, head_dim]:
\* row i belongs to batch entry b and to key/value head k, which the heads of
\* one group share; pos is the position whose hidden state the cell is made
\* of. A batch the site's copy_ broadcast repeats the rows of the input.
NewValue(rows, batch, seq_len, past_kv_length) ==
    [i \in 1..rows |->
        [j \in 1..seq_len |->
            [b |-> ((i - 1) \div config.num_attention_heads) % batch,
             k |-> ((i - 1) % config.num_attention_heads) \div config.num_key_value_groups,
             pos |-> past_kv_length + j - 1]]]

\* The same for the keys, after maybe_rotary: rot is the cos and sin applied.
NewKey(rows, batch, seq_len, past_kv_length, rots) ==
    [i \in 1..rows |->
        [j \in 1..seq_len |->
            [b |-> ((i - 1) \div config.num_attention_heads) % batch,
             k |-> ((i - 1) % config.num_attention_heads) \div config.num_key_value_groups,
             pos |-> past_kv_length + j - 1,
             rot |-> rots[j]]]]

\* torch.cat((past, new), dim=1)
CatPositions(past, new) == [i \in 1..Len(new) |-> past[i] \o new[i]]

\* _reorder_cache_from_bloom_to_falcon on the contents
ReorderCacheFromBloomToFalcon(kv) ==
    [key |-> ExpandStates(kv.key), value |-> ExpandStates(kv.value), perm |-> ~kv.perm]

\* _reorder_cache_from_falcon_to_bloom on the contents
ReorderCacheFromFalconToBloom(kv) ==
    [key |-> CollapseStates(kv.key), value |-> CollapseStates(kv.value), perm |-> ~kv.perm]

\* The Bloom-layout cache whose tensors are views of the static outputs st.
BloomViewOf(st) ==
    ReorderCacheFromFalconToBloom([key |-> st.key, value |-> st.value, perm |-> FALSE])

\* Idle values of the parts a specification does not exercise.
ConvIdle == convInput = <<>> /\ convState = <<>> /\ convPhase = "idle"

NoCall ==
    [batch |-> 0, seq_len |-> 0, mode |-> "none", past |-> NoPast, res |-> "none",
     present |-> NoPast, out |-> 0, paths |-> NoPaths, ins |-> NoIns]

BlockIdle ==
    /\ blocks = [l \in 0..NumLayers |-> NewBlock]
    /\ rope = [l \in 0..NumLayers |-> NewRope]
    /\ held = NoPast
    /\ lastCall = NoCall
    /\ statics = NoStatics
    /\ heldKV = [kv |-> NoKV, alias |-> FALSE]
    /\ lastKV = [past |-> NoKV, present |-> NoKV]

NoStart == -1

NoRot == [l \in 0..NumLayers |-> "none"]

NoStep == [n |-> 0, start |-> NoStart, res |-> "none", order |-> <<>>, rot |-> NoRot]

SessIdle ==
    /\ sessState = "None"
    /\ sessBatch = 0
    /\ position = 0
    /\ cacheLen = [l \in 1..NumLayers |-> 0]
    /\ lastStep = NoStep
    /\ sessTokens = <<>>
    /\ cacheKeys = [l \in 1..NumLayers |-> <<>>]
    /\ rejected = FALSE

NoRound == [new_tokens |-> <<>>, preds |-> <<>>, match_length |-> 0]

LoopIdle ==
    /\ authTable = <<>>
    /\ inputs = <<>>
    /\ generated_ids = <<>>
    /\ lastRound = NoRound
    /\ pc = "idle"

Callers == {1, 2}

NoData == <<>>

RaceIdle ==
    /\ staticIn = NoData
    /\ staticOut = NoData
    /\ callPc = [c \in Callers |-> "idle"]
    /\ callIn = [c \in Callers |-> NoData]
    /\ callOut = [c \in Callers |-> NoData]
    /\ overlapped = [c \in Callers |-> FALSE]

\* ------------------------------------------------ converter specification
ConvInit ==
    /\ config \in Configs
    /\ \E batch \in BatchSizes, seq_len \in SeqLens :
            convInput \in Tensors(batch * config.num_kv_heads, seq_len)
    /\ convState = convInput
    /\ convPhase = "collapsed"
    /\ BlockIdle
    /\ SessIdle
    /\ LoopIdle
    /\ max_length = 0
    /\ RaceIdle
    /\ event = "init"

ConvExpand ==
    /\ convPhase = "collapsed"
    /\ convState' = ExpandStates(convState)
    /\ convPhase' = "expanded"
    /\ event' = "expand"
    /\ UNCHANGED <<config, raceVars, convInput, blockVars, sessVars, loopVars>>

ConvCollapse ==
    /\ convPhase = "expanded"
    /\ convState' = CollapseStates(convState)
    /\ convPhase' = "roundtrip"
    /\ event' = "collapse"
    /\ UNCHANGED <<config, raceVars, convInput, blockVars, sessVars, loopVars>>

ConvNext == ConvExpand \/ ConvCollapse

SpecConv == ConvInit /\ [][ConvNext]_vars

\* ---------------------------------------------------- block specification
\* A block called directly, as the tests call ref_block: any batch, any
\* sequence length, any mode, with the cache of the previous call or none.
\* max_length is the capacity the caller declared for the cache it holds.
BlockInit ==
    /\ config \in Configs
    /\ max_length \in MaxLengths
    /\ BlockIdle
    /\ ConvIdle
    /\ SessIdle
    /\ LoopIdle
    /\ RaceIdle
    /\ event = "init"

CallBlockReturns(batch, seq_len, mode, past, r) ==
    /\ blocks' = [blocks EXCEPT ![0] = r.blk]
    /\ held' = IF r.res = "ok" THEN r.present ELSE held
    /\ lastCall' = [batch |-> batch, seq_len |-> seq_len, mode |-> mode,
                    past |-> past, res |-> r.res, present |-> r.present,
                    out |-> r.out, paths |-> r.paths, ins |-> r.ins]

CallBlockWith(batch, seq_len, mode, past) ==
    /\ past.len + seq_len <= MaxHeldLen
    /\ CallBlockReturns(batch, seq_len, mode, past,
                        BlockForward(blocks[0], batch, seq_len, mode, past))

CallBlock ==
    /\ \E batch \in BatchSizes, seq_len \in 1..MaxTokens, mode \in Modes, use_past \in BOOLEAN :
            CallBlockWith(batch, seq_len, mode, IF use_past THEN held ELSE NoPast)
    /\ event' = "forward"
    /\ UNCHANGED <<config, raceVars, convVars, rope, kvVars, sessVars, loopVars>>

BlockNext == CallBlock

SpecBlock == BlockInit /\ [][BlockNext]_vars

\* ------------------------------------------- block contents specification
\* The same direct calls, followed down to the contents: the rotary tables of
\* block 0 as its rotary embedding's forward leaves them, the static outputs
\* of its sites, and the tensors of the caches it takes and returns. c is the
\* call by its shapes (lastCall), sites the block's sites after the call, r
\* the rotary tables before it.
Accelerated(path) == path \in {"capture", "replay"}

\* The static outputs after the call: a replay overwrites them. The value is
\* the third of the fused projection's static_outputs, the key the second of
\* the rotary embedding's.
StaticsAfter(c, sites, r) ==
    [key |-> IF Accelerated(c.paths.rotary)
             THEN NewKey(sites.rotary.outputs, c.batch, 1, c.past.len,
                         RotaryApplied(r, 1, c.past.len))
             ELSE statics.key,
     value |-> IF Accelerated(c.paths.qkv)
               THEN NewValue(sites.qkv.outputs * config.num_attention_heads, c.batch, 1,
                             c.past.len)
               ELSE statics.value]

\* key_layer and value_layer before the concatenation: the detached static
\* outputs themselves on the accelerated path, new tensors otherwise.
NewKV(c, st, r) ==
    IF Accelerated(c.paths.rotary)
    THEN [key |-> st.key, value |-> st.value, perm |-> FALSE]
    ELSE [key |-> NewKey(c.batch * config.num_attention_heads, c.batch, c.seq_len,
                         c.past.len, RotaryApplied(r, c.seq_len, c.past.len)),
          value |-> NewValue(c.batch * config.num_attention_heads, c.batch, c.seq_len,
                             c.past.len),
          perm |-> FALSE]

\* layer_past at the concatenation. _expand_states copies ("Involves a copy")
\* when it has groups to expand; with one head per group its reshape is a
\* view, and a layer_past that views the static outputs reads what the replay
\* of this call left in them (st).
PastAtCat(st) ==
    IF heldKV.alias /\ config.num_key_value_groups = 1
    THEN ReorderCacheFromBloomToFalcon(BloomViewOf(st))
    ELSE ReorderCacheFromBloomToFalcon(heldKV.kv)

\* present = (key_layer, value_layer), concatenated with layer_past if given
PresentKV(c, past, new) ==
    IF c.past.rows = 0
    THEN new
    ELSE [key |-> CatPositions(past.key, new.key),
          value |-> CatPositions(past.value, new.value),
          perm |-> FALSE]

\* The cache the caller holds after the call: the returned present (views of
\* the static outputs when nothing was concatenated on the accelerated path),
\* or after a failed call the one it held, whose views follow the replay.
HeldAfter(c, st, r) ==
    IF c.res = "ok"
    THEN [kv |-> ReorderCacheFromFalconToBloom(PresentKV(c, PastAtCat(st), NewKV(c, st, r))),
          alias |-> c.past.rows = 0 /\ Accelerated(c.paths.rotary)]
    ELSE IF heldKV.alias
         THEN [kv |-> BloomViewOf(st), alias |-> TRUE]
         ELSE heldKV

\* One head to a group and several: the configurations the layouts differ in.
CacheInit ==
    /\ BlockInit
    /\ config.num_kv_heads = config.num_key_value_groups

\* Here the caller keeps the cache it feeds back within its declared capacity.
CallBlockCache ==
    /\ \E batch \in BatchSizes, seq_len \in 1..MaxTokens, mode \in Modes, use_past \in BOOLEAN :
            /\ use_past => held.len + seq_len <= max_length
            /\ CallBlockWith(batch, seq_len, mode, IF use_past THEN held ELSE NoPast)
    /\ rope' = [rope EXCEPT ![0] = RotaryTables(rope[0], lastCall'.paths.rotary,
                                                lastCall'.seq_len, lastCall'.past.len)]
    /\ statics' = StaticsAfter(lastCall', blocks'[0], rope[0])
    /\ heldKV' = HeldAfter(lastCall', statics', rope[0])
    /\ lastKV' = [past |-> IF lastCall'.past.rows = 0 THEN NoKV ELSE heldKV.kv,
                  present |-> IF lastCall'.res = "ok" THEN heldKV'.kv ELSE NoKV]
    /\ event' = "forward"
    /\ UNCHANGED <<config, raceVars, convVars, sessVars, loopVars>>

CacheNext == CallBlockCache

SpecCache == CacheInit /\ [][CacheNext]_vars

\* -------------------------------------------------- session specification
\* The session's length check: would n more tokens exceed max_length.
ExceedsInclusive(length, n) == length + n >= max_length

ExceedsLate(length, n) == length + n > max_length + 1

ExceedsMaxLength(length, n) == length + n > max_length

\* The layers from l on, in stack order: each extends its cache by the block's
\* forward, and its output hidden states feed the next layer. rot collects the
\* path each layer's rotary embedding took.
RECURSIVE RunLayers(_, _, _, _, _, _, _)
\* A layer loop that does not commit the last layer's extension.
RunLayerDropsLast(l, blks, lens, n, order, rot, r) ==
    IF r.res # "ok"
    THEN [blks |-> [blks EXCEPT ![l] = r.blk], lens |-> lens, res |-> r.res, order |-> order,
          rot |-> [rot EXCEPT ![l] = r.paths.rotary]]
    ELSE RunLayers(l + 1, [blks EXCEPT ![l] = r.blk],
                   [lens EXCEPT ![l] = IF l = NumLayers THEN lens[l] ELSE r.present.len],
                   r.out, n, Append(order, l), [rot EXCEPT ![l] = r.paths.rotary])

RunLayer(l, blks, lens, n, order, rot, r) ==
    IF r.res # "ok"
    THEN [blks |-> [blks EXCEPT ![l] = r.blk], lens |-> lens, res |-> r.res, order |-> order,
          rot |-> [rot EXCEPT ![l] = r.paths.rotary]]
    ELSE RunLayers(l + 1, [blks EXCEPT ![l] = r.blk], [lens EXCEPT ![l] = r.present.len],
                   r.out, n, Append(order, l), [rot EXCEPT ![l] = r.paths.rotary])

RunLayers(l, blks, lens, batch, n, order, rot) ==
    IF l > NumLayers
    THEN [blks |-> blks, lens |-> lens, res |-> "ok", order |-> order, rot |-> rot]
    ELSE RunLayer(l, blks, lens, n, order, rot,
                  BlockForward(blks[l], batch, n, "inference",
                               [rows |-> sessBatch * config.num_kv_heads, len |-> lens[l]]))

SessInit ==
    /\ config \in Configs
    /\ max_length \in MaxLengths
    /\ sessBatch \in BatchSizes
    /\ sessState = "Open"
    /\ position = 0
    /\ cacheLen = [l \in 1..NumLayers |-> 0]
    /\ lastStep = NoStep
    /\ sessTokens = <<>>
    /\ cacheKeys = [l \in 1..NumLayers |-> <<>>]
    /\ rejected = FALSE
    /\ BlockIdle
    /\ ConvIdle
    /\ LoopIdle
    /\ RaceIdle
    /\ event = "init"

\* A step the length check let through: every layer cache is truncated to
\* from, then the layers run.
StepRuns(n, start, from, r) ==
    /\ blocks' = r.blks
    /\ cacheLen' = r.lens
    /\ position' = IF r.res = "ok" THEN from + n ELSE from
    /\ lastStep' = [n |-> n, start |-> start, res |-> r.res, order |-> r.order,
                    rot |-> r.rot]
    /\ UNCHANGED rejected

StepFrom(n, start, from) ==
    IF ExceedsMaxLength(from, n)
    THEN /\ lastStep' = [n |-> n, start |-> start,
                         res |-> "MaximumLengthExceeded", order |-> <<>>, rot |-> NoRot]
         /\ rejected' = TRUE
         /\ UNCHANGED <<blocks, cacheLen, position>>
    ELSE StepRuns(n, start, from,
                  RunLayers(1, blocks, [l \in 1..NumLayers |-> from], sessBatch, n, <<>>,
                            NoRot))

\* step(tokenBatch, startFromPosition), n = len(tokenBatch), by the lengths
\* and the sites' shapes.
StepShapes ==
    /\ sessState = "Open"
    /\ \E n \in 1..MaxTokens, start \in {NoStart} \cup (0..position) :
            StepFrom(n, start, IF start = NoStart THEN position ELSE start)
    /\ event' = "step"
    /\ UNCHANGED <<config, raceVars, convVars, held, lastCall, kvVars, sessState, max_length,
                   sessBatch, loopVars>>

Step ==
    /\ StepShapes
    /\ UNCHANGED <<rope, sessTokens, cacheKeys>>

CloseSession ==
    /\ sessState = "Open"
    /\ sessState' = "Closed"
    /\ event' = "close"
    /\ UNCHANGED <<config, raceVars, convVars, blockVars, max_length, sessBatch, position,
                   cacheLen, lastStep, sessTokens, cacheKeys, rejected, loopVars>>

SessNext == Step \/ CloseSession

SpecSession == SessInit /\ [][SessNext]_vars

\* ----------------------------------------- session contents specification
\* The same steps, followed down to the contents of the layers' key caches: a
\* cell holds the token of its position and the cos and sin rows the layer's
\* rotary embedding applied to its key.
NewKeys(tokens, r, past_kv_length) ==
    [i \in 1..Len(tokens) |->
        [tok |-> tokens[i], rot |-> RotaryApplied(r, Len(tokens), past_kv_length)[i]]]

\* A layer's key cache after the step: truncated to from and, where the layer
\* ran, extended by the keys of the new tokens.
LayerKeys(l, tokens, from, order) ==
    IF \E i \in 1..Len(order) : order[i] = l
    THEN SubSeq(cacheKeys[l], 1, from) \o NewKeys(tokens, rope[l], from)
    ELSE SubSeq(cacheKeys[l], 1, from)

StepContents(tokens, from) ==
    IF lastStep'.res = "MaximumLengthExceeded"
    THEN UNCHANGED <<rope, sessTokens, cacheKeys>>
    ELSE /\ rope' = [l \in 0..NumLayers |->
                        RotaryTables(rope[l], lastStep'.rot[l], Len(tokens), from)]
         /\ cacheKeys' = [l \in 1..NumLayers |-> LayerKeys(l, tokens, from, lastStep'.order)]
         /\ sessTokens' = SubSeq(sessTokens, 1, from) \o tokens

\* The cells stand for one row of the cache, so one head configuration does.
ReplayInit ==
    /\ SessInit
    /\ config.num_attention_heads = 1

\* step(tokenBatch, startFromPosition) with the contents it leaves behind
StepCache ==
    /\ StepShapes
    /\ \E tokens \in [1..lastStep'.n -> Vocab] :
            StepContents(tokens, IF lastStep'.start = NoStart
                                 THEN position
                                 ELSE lastStep'.start)

ReplayNext == StepCache \/ CloseSession

SpecReplay == ReplayInit /\ [][ReplayNext]_vars

\* ------------------------------------------ speculative loop specification
\* torch.argmax(logits[:, j, :]): the authoritative model's arg-max token after
\* the prefix ids (a causal model: a function of the prefix alone).
AuthArgmax(ids) == authTable[<<ids[Len(ids)], Len(ids) % 2>>]

\* ref_model.generate(ids, max_new_tokens=k, do_sample=False): greedy decoding.
RECURSIVE Generate(_, _)
Generate(ids, k) ==
    IF k = 0 THEN ids ELSE Generate(Append(ids, AuthArgmax(ids)), k - 1)

\* The arg-max predictions the round compares with: for i in range(batch_size),
\* the logits at position len(generated_ids) + i - 1 of the combined sequence.
Predictions(ids, new_tokens) ==
    [i \in 1..BatchSize |-> AuthArgmax(ids \o SubSeq(new_tokens, 1, i - 1))]

\* The comparison loop without its break: every matching position counts.
RECURSIVE CountMatches(_, _, _, _)
CountMatches(new_tokens, preds, i, match_length) ==
    IF i > BatchSize
    THEN match_length
    ELSE CountMatches(new_tokens, preds, i + 1,
                      IF new_tokens[i] = preds[i] THEN match_length + 1 ELSE match_length)

\* for i in range(batch_size): match_length += 1 on a match, else break
RECURSIVE MatchLoop(_, _, _, _)
MatchLoop(new_tokens, preds, i, match_length) ==
    IF i > BatchSize
    THEN match_length
    ELSE IF new_tokens[i] = preds[i]
         THEN MatchLoop(new_tokens, preds, i + 1, match_length + 1)
         ELSE match_length

LoopInit ==
    /\ authTable \in [Vocab \X {0, 1} -> Vocab]
    /\ inputs \in Prompts
    /\ generated_ids = inputs
    /\ lastRound = NoRound
    /\ pc = "loop"
    /\ config = [num_kv_heads |-> 1, num_key_value_groups |-> 1, num_attention_heads |-> 1]
    /\ max_length = 0
    /\ ConvIdle
    /\ BlockIdle
    /\ SessIdle
    /\ RaceIdle
    /\ event = "init"

\* if match_length > 0: the verified prefix is appended; else: break
RoundEnds(new_tokens, preds, match_length) ==
    /\ lastRound' = [new_tokens |-> new_tokens, preds |-> preds,
                     match_length |-> match_length]
    /\ IF match_length > 0
       THEN /\ generated_ids' = generated_ids \o SubSeq(new_tokens, 1, match_length)
            /\ pc' = "loop"
       ELSE /\ pc' = "done"
            /\ UNCHANGED generated_ids

RoundVerifies(new_tokens, preds) ==
    RoundEnds(new_tokens, preds, MatchLoop(new_tokens, preds, 1, 0))

\* One pass of the while loop: the proposer's batch_size tokens, one of them
\* (at random_pos >= 1) overwritten by a random token, verified by the
\* authoritative model.
Round ==
    /\ pc = "loop"
    /\ Len(generated_ids) < MaxNewTokens + Len(inputs)
    /\ \E proposal \in [1..BatchSize -> Vocab], random_pos \in 1..(BatchSize - 1),
          random_id \in Vocab :
            RoundVerifies([proposal EXCEPT ![random_pos + 1] = random_id],
                          Predictions(generated_ids,
                                      [proposal EXCEPT ![random_pos + 1] = random_id]))
    /\ event' = "round"
    /\ UNCHANGED <<config, raceVars, convVars, blockVars, sessVars, authTable, inputs>>

\* The while condition fails: the loop is left.
LoopExit ==
    /\ pc = "loop"
    /\ Len(generated_ids) >= MaxNewTokens + Len(inputs)
    /\ pc' = "done"
    /\ event' = "exit"
    /\ UNCHANGED <<config, raceVars, convVars, blockVars, sessVars, authTable, inputs,
                   generated_ids, lastRound>>

LoopNext == Round \/ LoopExit

SpecLoop == LoopInit /\ [][LoopNext]_vars

\* -------------------------------------------- shared site specification
\* Two callers invoke _optimized_apply_qkv of one block under inference mode
\* with hidden_states of shape [1, 1, hidden]. The code takes no lock: the
\* statements of the two invocations interleave freely. An invocation is
\* serialized when no statement of the other caller's invocation falls
\* between its copy-in and its return (overlapped records the contrary).
\* _optimized_apply_ln has the same three statements.

\* query_key_value and _split_heads of the graph, applied to hidden_states
QkvOf(hidden_states) == <<"qkv", hidden_states>>

\* An invocation that skips the copy into the bound input.
StaticInputKept(static_input, hidden_states) == static_input

\* self.static_input.copy_(hidden_states)
StaticInputAfterCopy(static_input, hidden_states) == hidden_states

Mid(c) == callPc[c] \in {"copied", "replayed"}

\* A statement of caller c overlaps the invocation another caller is in.
OverlapsOthers(c) == [d \in Callers |-> IF d # c /\ Mid(d) THEN TRUE ELSE overlapped[d]]

RaceInit ==
    /\ BlockInit
    /\ config.num_attention_heads = 1

\* if self.qkv_graph is None: capture; self.static_input.copy_(hidden_states)
RaceCopyIn(c) ==
    /\ callPc[c] \in {"idle", "returned"}
    /\ \E hidden_states \in Tensors(1, 1) :
            /\ callIn' = [callIn EXCEPT ![c] = hidden_states]
            /\ staticIn' = StaticInputAfterCopy(staticIn, hidden_states)
    /\ blocks' = [blocks EXCEPT ![0].qkv = CaptureOnce(blocks[0].qkv, 1, 1)]
    /\ callPc' = [callPc EXCEPT ![c] = "copied"]
    /\ overlapped' = [OverlapsOthers(c) EXCEPT ![c] = \E d \in Callers \ {c} : Mid(d)]
    /\ event' = "copy_in"
    /\ UNCHANGED <<config, convVars, rope, held, lastCall, kvVars, sessVars, loopVars,
                   staticOut, callOut>>

\* self.qkv_graph.replay()
RaceReplay(c) ==
    /\ callPc[c] = "copied"
    /\ staticOut' = QkvOf(staticIn)
    /\ callPc' = [callPc EXCEPT ![c] = "replayed"]
    /\ overlapped' = OverlapsOthers(c)
    /\ event' = "replay"
    /\ UNCHANGED <<config, convVars, blockVars, sessVars, loopVars,
                   staticIn, callIn, callOut>>

\* return tuple(o.detach() for o in self.static_outputs): the caller receives
\* the static outputs as they are when the invocation returns.
RaceReturn(c) ==
    /\ callPc[c] = "replayed"
    /\ callOut' = [callOut EXCEPT ![c] = staticOut]
    /\ callPc' = [callPc EXCEPT ![c] = "returned"]
    /\ overlapped' = OverlapsOthers(c)
    /\ event' = "return"
    /\ UNCHANGED <<config, convVars, blockVars, sessVars, loopVars,
                   staticIn, staticOut, callIn>>

RaceNext == \E c \in Callers : RaceCopyIn(c) \/ RaceReplay(c) \/ RaceReturn(c)

SpecRace == RaceInit /\ [][RaceNext]_vars

\* ------------------------------------------------------------------ claims
Sites == {"ln", "qkv", "rotary"}

\* The length a step appends at: startFromPosition when given, else the
\* session's current length.
StepFromOf(step, length) == IF step.start = NoStart THEN length ELSE step.start

\* C2: a step that would exceed max_length fails with MaximumLengthExceeded,
\* and a step rejected so leaves every layer cache, the blocks and the
\* session's current length exactly as they were.
C2_SessionAtomicity ==
    [][(sessState = "Open" /\ event' = "step") =>
          /\ (StepFromOf(lastStep', position) + lastStep'.n > max_length
                => lastStep'.res = "MaximumLengthExceeded")
          /\ (lastStep'.res = "MaximumLengthExceeded"
                => cacheLen' = cacheLen /\ position' = position /\ blocks' = blocks)
      ]_vars

\* The test's case: a session stepped to its maximum length rejects one more token.
C2_Witness ==
    /\ event = "step"
    /\ lastStep.res = "MaximumLengthExceeded"
    /\ lastStep.n = 1
    /\ lastStep.start = NoStart
    /\ position = max_length
    /\ \A l \in 1..NumLayers : cacheLen[l] = max_length

C4_RejectedStepKeepsSession ==
    [][event' = "step" =>
          /\ (lastStep'.res = "MaximumLengthExceeded" => sessState' = "Open")
          /\ ((rejected /\ sessState = "Open"
               /\ StepFromOf(lastStep', position) + lastStep'.n <= max_length)
                => /\ lastStep'.res = "ok"
                   /\ position' = StepFromOf(lastStep', position) + lastStep'.n
                   /\ \A l \in 1..NumLayers : cacheLen'[l] = position')
      ]_vars

\* The scenario: after a rejected step, one token brings the length to max_length.
C4_Witness ==
    /\ rejected
    /\ event = "step"
    /\ lastStep.res = "ok"
    /\ lastStep.n = 1
    /\ lastStep.start = NoStart
    /\ position = max_length

\* The length of the longest common prefix of p and t.
LongestCommonPrefix(p, t) ==
    CHOOSE k \in 0..Len(t) :
        /\ \A i \in 1..k : p[i] = t[i]
        /\ k = Len(t) \/ p[k + 1] # t[k + 1]

\* C5: in every round match_length is the length of the longest common prefix
\* of the authoritative predictions and the proposal.
C5_AcceptanceIsCommonPrefix ==
    event = "round" =>
        lastRound.match_length = LongestCommonPrefix(lastRound.preds, lastRound.new_tokens)

\* A round whose proposal fails at its second token and agrees again at its third.
C5_Witness ==
    /\ event = "round"
    /\ lastRound.match_length = 1
    /\ lastRound.new_tokens[2] # lastRound.preds[2]
    /\ lastRound.new_tokens[3] = lastRound.preds[3]

\* C6 as stated: when the loop has ended, the generated sequence is the greedy
\* decoding of exactly max_new_tokens tokens from the prompt.
C6_Original ==
    pc = "done" => generated_ids = Generate(inputs, MaxNewTokens)

\* C7 as stated: a round that rejects the first proposed token still extends
\* the sequence, and the loop ends only at its stopping condition.
C7_Original ==
    [][/\ (event' = "round" /\ lastRound'.match_length = 0
                => Len(generated_ids') > Len(generated_ids))
       /\ (pc = "loop" /\ pc' = "done"
                => Len(generated_ids) >= MaxNewTokens + Len(inputs))
      ]_vars

\* C8: a site captures or replays only in a call of sequence length 1 under
\* inference mode; any other call runs all three sites directly and leaves
\* their capture state unchanged.
C8_ShapeGating ==
    [][event' = "forward" =>
          /\ \A s \in Sites :
                lastCall'.paths[s] \in {"capture", "replay", "error"}
                    => lastCall'.seq_len = 1 /\ lastCall'.mode = "inference"
          /\ (lastCall'.seq_len # 1 \/ lastCall'.mode # "inference")
                => /\ \A s \in Sites : lastCall'.paths[s] = "direct"
                   /\ blocks' = blocks
      ]_vars

\* A call of two tokens under inference mode on a block whose sites are captured.
C8_Witness ==
    /\ event = "forward"
    /\ lastCall.seq_len = 2
    /\ lastCall.mode = "inference"
    /\ \A s \in Sites : blocks[0][s].graph /\ lastCall.paths[s] = "direct"

\* C9: a site warms up three times, captures once and binds its surface in
\* its first eligible call; later calls only copy in and replay: a captured
\* site never changes its graph, surface or output buffers again.
C9_CaptureOnce ==
    [][\A s \in Sites :
          /\ (blocks[0][s].graph => blocks'[0][s] = blocks[0][s])
          /\ (blocks'[0][s].graph
                => /\ blocks'[0][s].captures = 1
                   /\ blocks'[0][s].warmups = 3
                   /\ blocks'[0][s].binds = 1)
          /\ (~blocks'[0][s].graph
                => /\ blocks'[0][s].captures = 0
                   /\ blocks'[0][s].warmups = 0
                   /\ blocks'[0][s].binds = 0)
          /\ (lastCall'.paths[s] = "capture" => ~blocks[0][s].graph /\ blocks'[0][s].graph)
          /\ (lastCall'.paths[s] = "replay" => blocks[0][s].graph)
      ]_vars

\* A later eligible call that replayed at all three sites.
C9_Witness ==
    /\ event = "forward"
    /\ lastCall.res = "ok"
    /\ \A s \in Sites : lastCall.paths[s] = "replay" /\ blocks[0][s].captures = 1

\* C10 as stated: whatever reaches capture or replay at a site has the first
\* dimension of the bound surface.
C10_Original ==
    event = "forward" =>
        /\ (lastCall.paths.ln \in {"capture", "replay"}
                => lastCall.ins.ln = blocks[0].ln.surface)
        /\ (lastCall.paths.qkv \in {"capture", "replay"}
                => lastCall.ins.qkv = blocks[0].qkv.surface)
        /\ (lastCall.paths.rotary \in {"capture", "replay"}
                => lastCall.ins.rotary = blocks[0].rotary.surface[1])

\* C1: collapsing the expansion of a collapsed cache state gives the state
\* back, entry for entry and position for position, for every group size.
C1_RoundTrip == convPhase = "roundtrip" => convState = convInput

\* A round trip of a batch of two with two kv heads of two groups each, whose
\* entries differ from one another.
C1_Witness ==
    /\ convPhase = "roundtrip"
    /\ config.num_kv_heads = 2
    /\ config.num_key_value_groups = 2
    /\ Len(convInput) = 4
    /\ Len(convInput[1]) = 2
    /\ convInput[1] # convInput[2]
    /\ convInput[2] # convInput[3]
    /\ convInput[1][1] # convInput[1][2]

\* C15: the accelerated rotary replay writes only buffers the accelerator
\* owns: over any sequence of forward calls every row of the cos and sin
\* tables keeps the value that was computed for its position when the table
\* was built, so cos_sin keeps returning that value. The code binds the views
\* cos_sin returned as input_surface, and the copy-in of a later position
\* writes that position's rows through them into the tables.
C15_Original ==
    rope[0].seq_len_cached # -1 =>
        /\ rope[0].cos_cached = CosTable(rope[0].seq_len_cached)
        /\ rope[0].sin_cached = CosTable(rope[0].seq_len_cached)

\* The key cache of a freshly opened session, on freshly loaded layers, that
\* stepped the whole sequence from scratch.
FreshKeys(tokens) == NewKeys(tokens, NewRope, 0)

\* C11: after step(t, startFromPosition = n) every layer cache has length
\* n + len(t) and its contents equal those of a freshly opened session that
\* stepped the accepted prefix followed by t from scratch.
C11_Original ==
    (event = "step" /\ lastStep.start # NoStart /\ lastStep.res = "ok") =>
        \A l \in 1..NumLayers :
            /\ Len(cacheKeys[l]) = lastStep.start + lastStep.n
            /\ cacheKeys[l] = FreshKeys(sessTokens)

\* C12: between two step calls, whatever steps came before (successful, with
\* startFromPosition, rejected), all layer caches of the session have the same
\* length, the session's current length, and a step that ran updated the
\* layers in stack order.
C12_CrossLayerLength ==
    /\ \A l \in 1..NumLayers : cacheLen[l] = position
    /\ (event = "step" /\ lastStep.res = "ok") =>
            lastStep.order = [i \in 1..NumLayers |-> i]
    /\ (event = "step" /\ lastStep.res # "ok") => lastStep.order = <<>>

\* A step with startFromPosition that cut caches back and re-extended them,
\* in a session that had a step rejected before.
C12_Witness ==
    /\ event = "step"
    /\ rejected
    /\ lastStep.res = "ok"
    /\ lastStep.start # NoStart
    /\ lastStep.start >= 1
    /\ position = lastStep.start + lastStep.n
    /\ position < max_length
    /\ \A l \in 1..NumLayers : blocks[l].rotary.graph

\* C13: when two callers invoke the same accelerated site and their
\* invocations are serialized, each receives the outputs of its own inputs;
\* without serialization an interleaving of copy-in, replay and return is
\* reachable in which a caller receives outputs not computed from its inputs
\* (the state C13_Witness describes).
C13_SerializedOwnOutputs ==
    \A c \in Callers :
        (callPc[c] = "returned" /\ ~overlapped[c]) => callOut[c] = QkvOf(callIn[c])

\* One caller returned from an overlapped invocation with the outputs of the
\* other caller's inputs; the other caller then ran a serialized invocation
\* and received the outputs of its own.
C13_Witness ==
    \E c \in Callers, d \in Callers :
        /\ c # d
        /\ callPc[c] = "returned"
        /\ overlapped[c]
        /\ callOut[c] # QkvOf(callIn[c])
        /\ callPc[d] = "returned"
        /\ ~overlapped[d]
        /\ callOut[d] = QkvOf(callIn[d])
        /\ blocks[0].qkv.captures = 1

\* C14: a forward call with use_cache, given hidden states of sequence length
\* n and either no layer_past or one in the Bloom layout of length L for the
\* call's batch, returns a cache in the Bloom layout again: batch *
\* num_kv_heads rows, the key's axes permuted back, key and value of length
\* L + n (n without layer_past), the first L positions being layer_past as it
\* was passed in.
C14_Original ==
    (/\ event = "forward"
     /\ lastCall.res = "ok"
     /\ lastCall.past.rows \in {0, lastCall.batch * config.num_kv_heads}) =>
        /\ lastKV.present.perm
        /\ Len(lastKV.present.key) = lastCall.batch * config.num_kv_heads
        /\ Len(lastKV.present.value) = lastCall.batch * config.num_kv_heads
        /\ \A i \in 1..(lastCall.batch * config.num_kv_heads) :
                /\ Len(lastKV.present.key[i]) = lastCall.past.len + lastCall.seq_len
                /\ Len(lastKV.present.value[i]) = lastCall.past.len + lastCall.seq_len
                /\ lastCall.past.rows # 0 =>
                        /\ SubSeq(lastKV.present.key[i], 1, lastCall.past.len)
                                = lastKV.past.key[i]
                        /\ SubSeq(lastKV.present.value[i], 1, lastCall.past.len)
                                = lastKV.past.value[i]

====
